---------------------------- MODULE Spec2Model ----------------------------
(***************************************************************************)
(* Model of psycopg's JSON adaptation module (psycopg/types/json.py):      *)
(* the global load/dump hooks, the Json/Jsonb wrappers, the four dumper    *)
(* and four loader classes, and the bootstrap registration.                *)
(*                                                                         *)
(* Text (Python str) is a sequence of Unicode code points; binary data     *)
(* (Python bytes) is a sequence of integers in 0..255.                     *)
(***************************************************************************)
EXTENDS Integers, Sequences, FiniteSets, TLC

VARIABLES
    g_loads,     \* json.py:20  module global _loads
    g_dumps,     \* json.py:21  module global _dumps
    wrappers,    \* the _JsonWrapper instances alive: <<[cls, obj, _dumps]>>
    wrapHist,    \* history: per wrapper, the constructor's argument and the
                 \* global _dumps at the time of the call
    dumpers,     \* the _JsonDumper instances alive: <<[cls]>>
    dumperHist,  \* history: per dumper, the global _dumps when constructed
    loaders,     \* the _JsonLoader instances alive: <<[cls, _loads]>>
    loaderHist,  \* history: per loader, the global _loads when constructed
    lastDumps,   \* the last _JsonWrapper.dumps() call and what it did
    lastDump,    \* the last Dumper.dump() call and what it returned
    lastLoad,    \* the last Loader.load() call and what it did
    adapters,    \* per adaptation scope, the registered dumpers and loaders
    lastReg,     \* the last registration call
    nregs,       \* number of single register() calls made so far
    tree,        \* async_to_sync.py:20-21  the variable tree of main()
    tool_pc,     \* where main() of async_to_sync.py stands
    tool_exc     \* the exception that ended main(), "None" if none

vars == <<g_loads, g_dumps, wrappers, wrapHist, dumpers, dumperHist, loaders,
          loaderHist, lastDumps, lastDump, lastLoad, adapters, lastReg, nregs,
         tree, tool_pc, tool_exc>>

-----------------------------------------------------------------------------
(* Bounds of the model. *)

MaxWrappers == 2
MaxLoaders == 1
MaxRegs == 2
MaxAwait == 2

\* tree before ast.parse() has run and after main() has been left.
NoTree ==
    [k |-> "None", id |-> "", e |-> <<>>, body |-> <<>>, orelse |-> <<>>, blank |-> FALSE]

-----------------------------------------------------------------------------
(* Python values that cross the module: JSON payloads.  A payload is a    *)
(* record of uniform shape so that any two payloads can be compared:      *)
(* t is the Python type, n the int value, s the str value (code points),  *)
(* l the list items.                                                      *)

PNull == [t |-> "None", n |-> 0, s |-> <<>>, l |-> <<>>]
PTrue == [t |-> "True", n |-> 0, s |-> <<>>, l |-> <<>>]
PFalse == [t |-> "False", n |-> 0, s |-> <<>>, l |-> <<>>]
PInt(n) == [t |-> "int", n |-> n, s |-> <<>>, l |-> <<>>]
PStr(s) == [t |-> "str", n |-> 0, s |-> s, l |-> <<>>]
PList(l) == [t |-> "list", n |-> 0, s |-> <<>>, l |-> l]

-----------------------------------------------------------------------------
(* str.encode("utf-8") and bytes.decode("utf-8"), as CPython computes     *)
(* them, for code points below 0x110000 (no lone surrogates).             *)

Utf8Char(cp) ==
    IF cp < 128 THEN <<cp>>
    ELSE IF cp < 2048 THEN <<192 + (cp \div 64), 128 + (cp % 64)>>
    ELSE IF cp < 65536 THEN
        <<224 + (cp \div 4096), 128 + ((cp \div 64) % 64), 128 + (cp % 64)>>
    ELSE <<240 + (cp \div 262144), 128 + ((cp \div 4096) % 64),
           128 + ((cp \div 64) % 64), 128 + (cp % 64)>>

RECURSIVE str_encode_utf8(_)
str_encode_utf8(s) ==
    IF s = <<>> THEN <<>>
    ELSE Utf8Char(Head(s)) \o str_encode_utf8(Tail(s))

Utf8SeqLen(c) ==
    IF c < 128 THEN 1
    ELSE IF c \in 194..223 THEN 2
    ELSE IF c \in 224..239 THEN 3
    ELSE IF c \in 240..244 THEN 4
    ELSE 0

Utf8CodePoint(b, i, n) ==
    IF n = 1 THEN b[i]
    ELSE IF n = 2 THEN (b[i] - 192) * 64 + (b[i + 1] - 128)
    ELSE IF n = 3 THEN
        (b[i] - 224) * 4096 + (b[i + 1] - 128) * 64 + (b[i + 2] - 128)
    ELSE (b[i] - 240) * 262144 + (b[i + 1] - 128) * 4096
         + (b[i + 2] - 128) * 64 + (b[i + 3] - 128)

\* The result is [ok, s]: ok is FALSE where Python raises UnicodeDecodeError.
RECURSIVE bytes_decode_utf8(_, _)
bytes_decode_utf8(b, i) ==
    IF i > Len(b) THEN [ok |-> TRUE, s |-> <<>>]
    ELSE
        LET n == Utf8SeqLen(b[i])
        IN  IF \/ n = 0
               \/ i + n - 1 > Len(b)
               \/ \E k \in 1..(n - 1) : b[i + k] \notin 128..191
            THEN [ok |-> FALSE, s |-> <<>>]
            ELSE
                LET cp == Utf8CodePoint(b, i, n)
                    rest == bytes_decode_utf8(b, i + n)
                IN  IF \/ (n = 3 /\ cp < 2048)
                       \/ (n = 4 /\ (cp < 65536 \/ cp > 1114111))
                       \/ ~rest.ok
                    THEN [ok |-> FALSE, s |-> <<>>]
                    ELSE [ok |-> TRUE, s |-> <<cp>> \o rest.s]

-----------------------------------------------------------------------------
(* The standard library's json.dumps and json.loads, the defaults of the  *)
(* two global hooks, on the payloads of the model: None, True, False,     *)
(* non-negative ints, strs without control characters, and lists.         *)

RECURSIVE Digits(_)
Digits(n) == IF n < 10 THEN <<48 + n>> ELSE Digits(n \div 10) \o <<48 + (n % 10)>>

HexDigit(d) == IF d < 10 THEN 48 + d ELSE 87 + d

Hex4(cp) ==
    <<HexDigit(cp \div 4096), HexDigit((cp \div 256) % 16),
      HexDigit((cp \div 16) % 16), HexDigit(cp % 16)>>

\* json.encoder: ESCAPE_ASCII escapes '"', '\' and everything outside ' '..'~';
\* ESCAPE (ensure_ascii=False) escapes only '"', '\' and control characters.
EscapeChar(c, ensure_ascii) ==
    IF c = 34 THEN <<92, 34>>
    ELSE IF c = 92 THEN <<92, 92>>
    ELSE IF ensure_ascii /\ c > 126 /\ c < 65536 THEN <<92, 117>> \o Hex4(c)
    ELSE <<c>>

RECURSIVE EscapeStr(_, _)
EscapeStr(s, ensure_ascii) ==
    IF s = <<>> THEN <<>>
    ELSE EscapeChar(Head(s), ensure_ascii) \o EscapeStr(Tail(s), ensure_ascii)

\* json.dumps(p, ensure_ascii=...) with the default separators (", ").
RECURSIVE py_json_dumps(_, _)
RECURSIVE DumpItems(_, _)
py_json_dumps(p, ensure_ascii) ==
    CASE p.t = "None" -> <<110, 117, 108, 108>>
      [] p.t = "True" -> <<116, 114, 117, 101>>
      [] p.t = "False" -> <<102, 97, 108, 115, 101>>
      [] p.t = "int" -> Digits(p.n)
      [] p.t = "str" -> <<34>> \o EscapeStr(p.s, ensure_ascii) \o <<34>>
      [] p.t = "list" -> <<91>> \o DumpItems(p.l, ensure_ascii) \o <<93>>

DumpItems(l, ensure_ascii) ==
    IF l = <<>> THEN <<>>
    ELSE IF Len(l) = 1 THEN py_json_dumps(l[1], ensure_ascii)
    ELSE py_json_dumps(l[1], ensure_ascii) \o <<44, 32>>
         \o DumpItems(Tail(l), ensure_ascii)

\* A parse result is [ok, val, pos]: pos is the index after the value.
ParseFail == [ok |-> FALSE, val |-> PNull, pos |-> 0]

IsWs(c) == c \in {32, 9, 10, 13}

IsDigit(c) == c \in 48..57

IsHex(c) == c \in 48..57 \/ c \in 97..102 \/ c \in 65..70

HexVal(c) == IF c \in 48..57 THEN c - 48 ELSE IF c \in 97..102 THEN c - 87 ELSE c - 55

RECURSIVE SkipWs(_, _)
SkipWs(s, i) == IF i <= Len(s) /\ IsWs(s[i]) THEN SkipWs(s, i + 1) ELSE i

HasWord(s, i, w) ==
    /\ i + Len(w) - 1 <= Len(s)
    /\ \A k \in 1..Len(w) : s[i + k - 1] = w[k]

RECURSIVE ScanInt(_, _, _)
ScanInt(s, i, acc) ==
    IF i <= Len(s) /\ IsDigit(s[i]) THEN ScanInt(s, i + 1, acc * 10 + (s[i] - 48))
    ELSE [ok |-> TRUE, val |-> acc, pos |-> i]

\* json.decoder.py_scanstring (strict): i is the index after the opening quote.
RECURSIVE ScanString(_, _, _)
ScanString(s, i, acc) ==
    IF i > Len(s) THEN ParseFail
    ELSE IF s[i] = 34 THEN [ok |-> TRUE, val |-> PStr(acc), pos |-> i + 1]
    ELSE IF s[i] < 32 THEN ParseFail
    ELSE IF s[i] # 92 THEN ScanString(s, i + 1, acc \o <<s[i]>>)
    ELSE IF i + 1 > Len(s) THEN ParseFail
    ELSE IF s[i + 1] \in {34, 92, 47} THEN ScanString(s, i + 2, acc \o <<s[i + 1]>>)
    ELSE IF /\ s[i + 1] = 117
            /\ i + 5 <= Len(s)
            /\ \A k \in 2..5 : IsHex(s[i + k])
         THEN ScanString(s, i + 6,
                  acc \o <<HexVal(s[i + 2]) * 4096 + HexVal(s[i + 3]) * 256
                           + HexVal(s[i + 4]) * 16 + HexVal(s[i + 5])>>)
    ELSE ParseFail

\* json.scanner.py_make_scanner's _scan_once; parse_int_str models the
\* parse_int=str option of json.loads (an int literal is returned as a str).
RECURSIVE ScanOnce(_, _, _)
RECURSIVE ScanArray(_, _, _, _)
ScanOnce(s, i, parse_int_str) ==
    IF i > Len(s) THEN ParseFail
    ELSE IF s[i] = 34 THEN ScanString(s, i + 1, <<>>)
    ELSE IF s[i] = 91 THEN
        LET j == SkipWs(s, i + 1)
        IN  IF j <= Len(s) /\ s[j] = 93
            THEN [ok |-> TRUE, val |-> PList(<<>>), pos |-> j + 1]
            ELSE ScanArray(s, j, <<>>, parse_int_str)
    ELSE IF HasWord(s, i, <<110, 117, 108, 108>>)
         THEN [ok |-> TRUE, val |-> PNull, pos |-> i + 4]
    ELSE IF HasWord(s, i, <<116, 114, 117, 101>>)
         THEN [ok |-> TRUE, val |-> PTrue, pos |-> i + 4]
    ELSE IF HasWord(s, i, <<102, 97, 108, 115, 101>>)
         THEN [ok |-> TRUE, val |-> PFalse, pos |-> i + 5]
    ELSE IF s[i] = 48 THEN
        [ok |-> TRUE, val |-> IF parse_int_str THEN PStr(<<48>>) ELSE PInt(0),
         pos |-> i + 1]
    ELSE IF IsDigit(s[i]) THEN
        LET r == ScanInt(s, i, 0)
        IN  [ok |-> TRUE,
             val |-> IF parse_int_str THEN PStr(SubSeq(s, i, r.pos - 1))
                     ELSE PInt(r.val),
             pos |-> r.pos]
    ELSE ParseFail

\* json.decoder.JSONArray after the opening bracket, at the first item.
ScanArray(s, i, acc, parse_int_str) ==
    LET v == ScanOnce(s, i, parse_int_str)
    IN  IF ~v.ok THEN ParseFail
        ELSE
            LET j == SkipWs(s, v.pos)
            IN  IF j > Len(s) THEN ParseFail
                ELSE IF s[j] = 93
                     THEN [ok |-> TRUE, val |-> PList(acc \o <<v.val>>), pos |-> j + 1]
                ELSE IF s[j] = 44
                     THEN ScanArray(s, SkipWs(s, j + 1), acc \o <<v.val>>,
                                    parse_int_str)
                ELSE ParseFail

\* What a call returns or raises: [raised, val].  raised is "" or the
\* exception class; val is the returned value (PNull when raising).
Returned(v) == [raised |-> "", val |-> v]

Raised(e) == [raised |-> e, val |-> PNull]

\* json.loads(b, parse_int=...) on bytes or bytearray content b: decode as
\* UTF-8 (content without NUL bytes or a BOM), skip whitespace, scan one
\* value, skip whitespace, and require the end of the input.
py_json_loads(b, parse_int_str) ==
    LET d == bytes_decode_utf8(b, 1)
    IN  IF ~d.ok THEN Raised("UnicodeDecodeError")
        ELSE
            LET v == ScanOnce(d.s, SkipWs(d.s, 1), parse_int_str)
            IN  IF ~v.ok THEN Raised("JSONDecodeError")
                ELSE IF SkipWs(d.s, v.pos) # Len(d.s) + 1
                     THEN Raised("JSONDecodeError")
                ELSE Returned(v.val)

-----------------------------------------------------------------------------
(* The functions that can be plugged in as serializer or deserializer.    *)
(* "json.dumps" and "json.loads" are the defaults (json.py:20-21);        *)
(* "dumps_raw" stands for partial(json.dumps, ensure_ascii=False) and     *)
(* "loads_int_str" for partial(json.loads, parse_int=str).  "None" is     *)
(* Python's None.                                                         *)

DumpsFns == {"json.dumps", "dumps_raw"}

LoadsFns == {"json.loads", "loads_int_str"}

\* Calling a JsonDumpsFunction on a payload: the str it returns.
ApplyDumps(fn, obj) == py_json_dumps(obj, fn = "json.dumps")

\* The record of one serializer call.
CallDumps(fn, obj) == [fn |-> fn, arg |-> obj, out |-> ApplyDumps(fn, obj)]

-----------------------------------------------------------------------------
(* adapt.Buffer = Union[bytes, bytearray, memoryview].  A buffer is the   *)
(* object it exposes (obj), and for a memoryview the window on it: first  *)
(* index, stride and length.  bytes and bytearray own their content.      *)

Bytes(b) == [kind |-> "bytes", obj |-> b, start |-> 1, step |-> 1, len |-> Len(b)]

ByteArray(b) ==
    [kind |-> "bytearray", obj |-> b, start |-> 1, step |-> 1, len |-> Len(b)]

MemoryView(obj, start, step, len) ==
    [kind |-> "memoryview", obj |-> obj, start |-> start, step |-> step, len |-> len]

\* The logical content of a buffer, in order.
Content(d) == [i \in 1..d.len |-> d.obj[d.start + (i - 1) * d.step]]

\* bool(data): a buffer is true when it is not empty.
buf_bool(d) == d.len # 0

\* data[0]
buf_getitem0(d) == d.obj[d.start]

\* data[1:]: a new object of the same type; a memoryview stays a window on
\* the same object.
buf_slice1(d) ==
    IF d.len = 0 THEN d
    ELSE IF d.kind = "memoryview"
         THEN MemoryView(d.obj, d.start + d.step, d.step, d.len - 1)
    ELSE [kind |-> d.kind, obj |-> Tail(d.obj), start |-> 1, step |-> 1,
          len |-> d.len - 1]

\* bytes(data): an owned contiguous copy of the content.
bytes_of(d) == Bytes(Content(d))

\* Calling a JsonLoadsFunction: json.loads accepts str, bytes and bytearray
\* and raises TypeError on anything else (json.py:127).
ApplyLoads(fn, data) ==
    IF data.kind = "memoryview" THEN Raised("TypeError")
    ELSE py_json_loads(Content(data), fn = "loads_int_str")

\* An exception message: the text of the literal and the values
\* interpolated into it (none for a plain string literal).
PlainStr(text) == [text |-> text, values |-> <<>>]

NoMsg == PlainStr("")

\* What a load() call did: the exception raised if any, the value returned,
\* and the one deserializer call it made if any.
LoadsCall(fn, data) ==
    LET r == ApplyLoads(fn, data)
    IN  [raised |-> r.raised, val |-> r.val, msg |-> NoMsg,
         called |-> TRUE, fn |-> fn, arg |-> data]

LoadRaise(e, msg) ==
    [raised |-> e, val |-> PNull, msg |-> msg,
     called |-> FALSE, fn |-> "None", arg |-> Bytes(<<>>)]

-----------------------------------------------------------------------------
(* The classes of the module.  "CtxJsonLoader" is a user subclass of      *)
(* JsonLoader that overrides get_loads(), as the docstring of get_loads   *)
(* invites, to return loads_int_str.                                      *)

WrapperClasses == {"Json", "Jsonb"}

DumperClasses == {"JsonDumper", "JsonBinaryDumper", "JsonbDumper", "JsonbBinaryDumper"}

BuiltinLoaderClasses ==
    {"JsonLoader", "JsonbLoader", "JsonBinaryLoader", "JsonbBinaryLoader"}

LoaderClasses == BuiltinLoaderClasses \cup {"CtxJsonLoader"}

\* The base class of each class.
ClassBase(cls) ==
    CASE cls = "JsonDumper" -> "_JsonDumper"
      [] cls = "JsonBinaryDumper" -> "JsonDumper"
      [] cls = "JsonbDumper" -> "_JsonDumper"
      [] cls = "JsonbBinaryDumper" -> "JsonbDumper"
      [] cls = "CtxJsonLoader" -> "JsonLoader"
      [] cls \in BuiltinLoaderClasses -> "_JsonLoader"
      [] OTHER -> "object"

\* The classes whose body defines attribute attr.
ClassDefines(cls, attr) ==
    CASE attr = "dump" -> cls \in {"_JsonDumper", "JsonbBinaryDumper"}
      [] attr = "load" -> cls \in {"_JsonLoader", "JsonbBinaryLoader"}
      [] attr = "get_loads" -> cls \in {"_JsonLoader", "CtxJsonLoader"}
      [] attr = "_oid" -> cls \in {"JsonDumper", "JsonbDumper"}
      [] OTHER -> FALSE

\* Attribute lookup along the inheritance chain: the class that provides attr.
RECURSIVE Resolve(_, _)
Resolve(cls, attr) ==
    IF cls = "object" \/ ClassDefines(cls, attr) THEN cls
    ELSE Resolve(ClassBase(cls), attr)

ClassFormat_swapped(cls) ==
    IF cls \in {"JsonBinaryDumper", "JsonbBinaryDumper", "JsonbBinaryLoader"}
    THEN "BINARY" ELSE "TEXT"

\* The format attribute of each dumper and loader class.
ClassFormat(cls) ==
    IF cls \in {"JsonBinaryDumper", "JsonbBinaryDumper", "JsonBinaryLoader",
                "JsonbBinaryLoader"}
    THEN "BINARY" ELSE "TEXT"

-----------------------------------------------------------------------------
(* _JsonWrapper *)

_JsonWrapper_init_global(cls, obj, dumps) ==
    [cls |-> cls, obj |-> obj, _dumps |-> g_dumps]

\* __init__: self._dumps = dumps or _dumps
_JsonWrapper_init(cls, obj, dumps) ==
    [cls |-> cls, obj |-> obj, _dumps |-> IF dumps # "None" THEN dumps ELSE g_dumps]

_JsonWrapper_dumps_lazy(self) == CallDumps(g_dumps, self.obj)

\* dumps(): return self._dumps(self.obj)
_JsonWrapper_dumps(self) == CallDumps(self._dumps, self.obj)

-----------------------------------------------------------------------------
(* _JsonDumper and its subclasses.  A dump() result is the serializer     *)
(* call made and the bytes returned.                                      *)

_JsonDumper_dump(obj) ==
    LET c == _JsonWrapper_dumps(obj)
    IN  [call |-> c, out |-> str_encode_utf8(c.out)]

JsonbBinaryDumper_dump_noversion(obj) ==
    LET c == _JsonWrapper_dumps(obj)
    IN  [call |-> c, out |-> str_encode_utf8(c.out)]

JsonbBinaryDumper_dump(obj) ==
    LET c == _JsonWrapper_dumps(obj)
    IN  [call |-> c, out |-> <<1>> \o str_encode_utf8(c.out)]

\* self.dump(obj), dispatched on the class of self.
Dumper_dump(self, obj) ==
    IF Resolve(self.cls, "dump") = "JsonbBinaryDumper"
    THEN JsonbBinaryDumper_dump(obj)
    ELSE _JsonDumper_dump(obj)

-----------------------------------------------------------------------------
(* _JsonLoader and its subclasses. *)

\* self.get_loads(), dispatched on the class of self.
get_loads(cls) ==
    IF Resolve(cls, "get_loads") = "CtxJsonLoader" THEN "loads_int_str"
    ELSE g_loads

\* __init__: self._loads = self.get_loads()
_JsonLoader_init(cls) == [cls |-> cls, _loads |-> get_loads(cls)]

_JsonLoader_load_global(self, data) ==
    LET data1 == IF data.kind = "memoryview" THEN bytes_of(data) ELSE data
    IN  LoadsCall(g_loads, data1)

_JsonLoader_load_noconv(self, data) == LoadsCall(self._loads, data)

_JsonLoader_load(self, data) ==
    LET data1 == IF data.kind = "memoryview" THEN bytes_of(data) ELSE data
    IN  LoadsCall(self._loads, data1)

JsonbBinaryLoader_load_nostrip(self, data) ==
    IF buf_bool(data) /\ buf_getitem0(data) # 1
    THEN LoadRaise("DataError", PlainStr("unknown jsonb binary format: {data[0]}"))
    ELSE
        LET data2 == IF data.kind = "memoryview" THEN bytes_of(data) ELSE data
        IN  LoadsCall(self._loads, data2)

JsonbBinaryLoader_load_strict(self, data) ==
    IF ~buf_bool(data) \/ buf_getitem0(data) # 1
    THEN LoadRaise("DataError", PlainStr("unknown jsonb binary format: {data[0]}"))
    ELSE
        LET data1 == buf_slice1(data)
            data2 == IF data1.kind = "memoryview" THEN bytes_of(data1) ELSE data1
        IN  LoadsCall(self._loads, data2)

\* The message is a plain string literal, not an f-string: nothing is
\* interpolated into it.
JsonbBinaryLoader_load(self, data) ==
    IF buf_bool(data) /\ buf_getitem0(data) # 1
    THEN LoadRaise("DataError", PlainStr("unknown jsonb binary format: {data[0]}"))
    ELSE
        LET data1 == buf_slice1(data)
            data2 == IF data1.kind = "memoryview" THEN bytes_of(data1) ELSE data1
        IN  LoadsCall(self._loads, data2)

\* self.load(data), dispatched on the class of self.
Loader_load(self, data) ==
    IF Resolve(self.cls, "load") = "JsonbBinaryLoader"
    THEN JsonbBinaryLoader_load(self, data)
    ELSE _JsonLoader_load(self, data)

-----------------------------------------------------------------------------
(* The adaptation contexts and their registries.  Dumper.register and     *)
(* Loader.register live in psycopg/adapt.py; they are modelled from the   *)
(* specification: a registry per scope, keyed by (type, format) for       *)
(* dumpers and (type name, format) for loaders, a registration replacing  *)
(* what the scope held under the same key, and a lookup walking from a    *)
(* scope to the root.                                                     *)

Scopes == {"global", "conn", "cur1", "cur2"}

ScopeParent(scope) ==
    CASE scope = "conn" -> "global"
      [] scope = "cur1" -> "conn"
      [] scope = "cur2" -> "conn"
      [] OTHER -> "None"

\* A scope, its parent, its parent's parent, ...
RECURSIVE ScopeChain(_)
ScopeChain(scope) ==
    IF scope = "None" THEN {} ELSE {scope} \cup ScopeChain(ScopeParent(scope))

\* The scopes a registration in scope is visible from: scope and below.
ScopeAndDescendants(scope) == {t \in Scopes : scope \in ScopeChain(t)}

EmptyMap == [k \in {} |-> "None"]

EmptyRegistry == [_dumpers |-> EmptyMap, _loaders |-> EmptyMap]

Dumper_register(cls, src, ctx, ad) ==
    [ad EXCEPT ![ctx]._dumpers = (<<src, ClassFormat(cls)>> :> cls) @@ @]

Loader_register(cls, oid, ctx, ad) ==
    [ad EXCEPT ![ctx]._loaders = (<<oid, ClassFormat(cls)>> :> cls) @@ @]

RECURSIVE lookup_dumper(_, _, _)
lookup_dumper(ad, scope, key) ==
    IF scope = "None" THEN "ProgrammingError"
    ELSE IF key \in DOMAIN ad[scope]._dumpers THEN ad[scope]._dumpers[key]
    ELSE lookup_dumper(ad, ScopeParent(scope), key)

RECURSIVE lookup_loader(_, _, _)
lookup_loader(ad, scope, key) ==
    IF scope = "None" THEN "ProgrammingError"
    ELSE IF key \in DOMAIN ad[scope]._loaders THEN ad[scope]._loaders[key]
    ELSE lookup_loader(ad, ScopeParent(scope), key)

RegisterDefaults_global(ctx, ad) ==
    LET a1 == Dumper_register("JsonBinaryDumper", "Json", "global", ad)
        a2 == Dumper_register("JsonDumper", "Json", "global", a1)
        a3 == Dumper_register("JsonbBinaryDumper", "Jsonb", "global", a2)
        a4 == Dumper_register("JsonbDumper", "Jsonb", "global", a3)
        a5 == Loader_register("JsonLoader", "json", "global", a4)
        a6 == Loader_register("JsonbLoader", "jsonb", "global", a5)
        a7 == Loader_register("JsonBinaryLoader", "json", "global", a6)
    IN  Loader_register("JsonbBinaryLoader", "jsonb", "global", a7)

\* The body of register_default_globals(ctx): the registry after its eight
\* register calls, in the order of the source.
RegisterDefaults(ctx, ad) ==
    LET a1 == Dumper_register("JsonBinaryDumper", "Json", ctx, ad)
        a2 == Dumper_register("JsonDumper", "Json", ctx, a1)
        a3 == Dumper_register("JsonbBinaryDumper", "Jsonb", ctx, a2)
        a4 == Dumper_register("JsonbDumper", "Jsonb", ctx, a3)
        a5 == Loader_register("JsonLoader", "json", ctx, a4)
        a6 == Loader_register("JsonbLoader", "jsonb", ctx, a5)
        a7 == Loader_register("JsonBinaryLoader", "json", ctx, a6)
    IN  Loader_register("JsonbBinaryLoader", "jsonb", ctx, a7)

-----------------------------------------------------------------------------
(* The state after importing the module, with no object constructed and   *)
(* every registry empty.                                                  *)

NoDumpsCall == [fn |-> "None", arg |-> PNull, out |-> <<>>]

Init ==
    /\ g_loads = "json.loads"
    /\ g_dumps = "json.dumps"
    /\ wrappers = <<>>
    /\ wrapHist = <<>>
    /\ dumpers = <<>>
    /\ dumperHist = <<>>
    /\ loaders = <<>>
    /\ loaderHist = <<>>
    /\ lastDumps = [w |-> 0, g |-> "None", call |-> NoDumpsCall]
    /\ lastDump = [d |-> 0, w |-> 0, res |-> [call |-> NoDumpsCall, out |-> <<>>]]
    /\ lastLoad = [l |-> 0, data |-> Bytes(<<>>), res |-> LoadRaise("", NoMsg)]
    /\ adapters = [s \in Scopes |-> EmptyRegistry]
    /\ lastReg = [op |-> "None", ctx |-> "None"]
    /\ nregs = 0
    /\ tree = NoTree
    /\ tool_pc = "start"
    /\ tool_exc = "None"

hookVars == <<g_loads, g_dumps>>

wrapVars == <<wrappers, wrapHist, lastDumps>>

dumpVars == <<dumpers, dumperHist, lastDump>>

loadVars == <<loaders, loaderHist, lastLoad>>

regVars == <<adapters, lastReg, nregs>>

toolVars == <<tree, tool_pc, tool_exc>>

-----------------------------------------------------------------------------
(* The operations. *)

set_json_dumps(dumps) ==
    /\ g_dumps' = dumps
    /\ UNCHANGED <<g_loads, wrapVars, dumpVars, loadVars, regVars, toolVars>>

set_json_loads(loads) ==
    /\ g_loads' = loads
    /\ UNCHANGED <<g_dumps, wrapVars, dumpVars, loadVars, regVars, toolVars>>

\* Json(obj, dumps) or Jsonb(obj, dumps); dumps = "None" when omitted.
Wrap(cls, obj, dumps) ==
    /\ wrappers' = Append(wrappers, _JsonWrapper_init(cls, obj, dumps))
    /\ wrapHist' = Append(wrapHist, [dumps |-> dumps, g |-> g_dumps])
    /\ UNCHANGED <<hookVars, lastDumps, dumpVars, loadVars, regVars, toolVars>>

\* wrappers[w].dumps()
WrapperDumps(w) ==
    /\ lastDumps' = [w |-> w, g |-> g_dumps, call |-> _JsonWrapper_dumps(wrappers[w])]
    /\ UNCHANGED <<hookVars, wrappers, wrapHist, dumpVars, loadVars, regVars, toolVars>>

\* cls(src, context): the dumper classes define no __init__ of their own.
NewDumper(cls) ==
    /\ dumpers' = Append(dumpers, [cls |-> cls])
    /\ dumperHist' = Append(dumperHist, [g |-> g_dumps])
    /\ UNCHANGED <<hookVars, wrapVars, lastDump, loadVars, regVars, toolVars>>

\* dumpers[d].dump(wrappers[w])
Dump(d, w) ==
    /\ lastDump' = [d |-> d, w |-> w, res |-> Dumper_dump(dumpers[d], wrappers[w])]
    /\ UNCHANGED <<hookVars, wrapVars, dumpers, dumperHist, loadVars, regVars, toolVars>>

\* cls(oid, context)
NewLoader(cls) ==
    /\ loaders' = Append(loaders, _JsonLoader_init(cls))
    /\ loaderHist' = Append(loaderHist, [g |-> g_loads])
    /\ UNCHANGED <<hookVars, wrapVars, dumpVars, lastLoad, regVars, toolVars>>

\* loaders[l].load(data)
Load(l, data) ==
    /\ lastLoad' = [l |-> l, data |-> data, res |-> Loader_load(loaders[l], data)]
    /\ UNCHANGED <<hookVars, wrapVars, dumpVars, loaders, loaderHist, regVars, toolVars>>

register_default_globals(ctx) ==
    /\ adapters' = RegisterDefaults(ctx, adapters)
    /\ lastReg' = [op |-> "register_default_globals", ctx |-> ctx]
    /\ UNCHANGED <<hookVars, wrapVars, dumpVars, loadVars, nregs, toolVars>>

\* cls.register(src, ctx) for one dumper or loader class.
Register(cls, src, ctx) ==
    /\ adapters' = IF cls \in DumperClasses
                   THEN Dumper_register(cls, src, ctx, adapters)
                   ELSE Loader_register(cls, src, ctx, adapters)
    /\ lastReg' = [op |-> "register", ctx |-> ctx]
    /\ nregs' = nregs + 1
    /\ UNCHANGED <<hookVars, wrapVars, dumpVars, loadVars, toolVars>>

-----------------------------------------------------------------------------
(* The inputs the operations are called with. *)

\* None, True, 7, 'a"e-acute euro', [12, 'e-acute'], []
Payloads ==
    {PNull, PTrue, PInt(7), PStr(<<97, 34, 233, 8364>>),
     PList(<<PInt(12), PStr(<<233>>)>>), PList(<<>>)}

WrapPayloads == {PInt(7), PStr(<<97, 34, 233, 8364>>)}

\* content c seen through a strided view: c[i] at the odd indexes of the
\* exposed object, a filler byte between.
Interleave(c) == [i \in 1..(2 * Len(c)) |-> IF i % 2 = 1 THEN c[(i + 1) \div 2] ELSE 9]

\* The buffers with content c: bytes, bytearray, a memoryview on the middle
\* of a larger receive buffer, and a non-contiguous memoryview.
BuffersOf(c) ==
    {Bytes(c), ByteArray(c),
     MemoryView(<<9>> \o c \o <<9>>, 2, 1, Len(c)),
     MemoryView(Interleave(c), 1, 2, Len(c))}

\* b'', b'7', b'\x017', b'\x027', b'[7]', b'\x01"\xc3\xa9"'
TestContents ==
    {<<>>, <<55>>, <<1, 55>>, <<2, 55>>, <<91, 55, 93>>, <<1, 34, 195, 169, 34>>}

TestBuffers == UNION {BuffersOf(c) : c \in TestContents}

\* The single registrations made besides the bootstrap: <<class, key>>.
RegCalls ==
    {<<"CtxJsonLoader", "json">>, <<"JsonbBinaryLoader", "json">>,
     <<"JsonbDumper", "Json">>}

-----------------------------------------------------------------------------
(* Specifications. *)

\* One value through the whole pipeline: the hooks are set at any time, one
\* wrapper, one dumper and one loader are constructed, the dumper dumps the
\* wrapper and the loader loads what the dumper returned.
Next ==
    \/ \E f \in DumpsFns : set_json_dumps(f)
    \/ \E f \in LoadsFns : set_json_loads(f)
    \/ /\ wrappers = <<>>
       /\ \E cls \in WrapperClasses, obj \in Payloads, dumps \in DumpsFns \cup {"None"} :
             Wrap(cls, obj, dumps)
    \/ /\ dumpers = <<>>
       /\ \E cls \in DumperClasses : NewDumper(cls)
    \/ /\ loaders = <<>>
       /\ \E cls \in LoaderClasses : NewLoader(cls)
    \/ \E d \in 1..Len(dumpers), w \in 1..Len(wrappers) : Dump(d, w)
    \/ /\ lastDump.d # 0
       /\ \E l \in 1..Len(loaders), data \in BuffersOf(lastDump.res.out) : Load(l, data)

Spec == Init /\ [][Next]_vars

\* Wrappers against the global serializer hook.
NextWrap ==
    \/ \E f \in DumpsFns : set_json_dumps(f)
    \/ /\ Len(wrappers) < MaxWrappers
       /\ \E cls \in WrapperClasses, obj \in WrapPayloads,
             dumps \in DumpsFns \cup {"None"} : Wrap(cls, obj, dumps)
    \/ \E w \in 1..Len(wrappers) : WrapperDumps(w)

SpecWrap == Init /\ [][NextWrap]_vars

\* Loaders against the global deserializer hook, on arbitrary input.
NextLoad ==
    \/ \E f \in LoadsFns : set_json_loads(f)
    \/ /\ Len(loaders) < MaxLoaders
       /\ \E cls \in LoaderClasses : NewLoader(cls)
    \/ \E l \in 1..Len(loaders), data \in TestBuffers : Load(l, data)

SpecLoad == Init /\ [][NextLoad]_vars

\* Registrations in the tree of scopes.
NextReg ==
    \/ \E ctx \in Scopes : register_default_globals(ctx)
    \/ /\ nregs < MaxRegs
       /\ \E c \in RegCalls, ctx \in Scopes : Register(c[1], c[2], ctx)

SpecReg == Init /\ [][NextReg]_vars

-----------------------------------------------------------------------------
(* tools/async_to_sync.py: the syntax trees.  A node is a record of       *)
(* uniform shape: k is the node class, id the name it carries (the id of  *)
(* a Name, the attr of an Attribute, the name of a function), e its       *)
(* expression children in field order, body and orelse its statement      *)
(* lists.  blank says that blank lines separate a statement from the one  *)
(* before it (after.lineno - before.end_lineno - 1 > 0).                  *)
(*   Await: e = <<value>>          Call: e = <<func, arg, ...>>           *)
(*   Attribute: e = <<value>>      Expr: e = <<value>>                    *)
(*   If: e = <<test>>              For, AsyncFor: e = <<target, iter>>    *)
(*   With, AsyncWith: e = the context_expr of each item                   *)
(*   Assign: e = <<target, value>>                                        *)

Node(k, id, e, body, orelse) ==
    [k |-> k, id |-> id, e |-> e, body |-> body, orelse |-> orelse, blank |-> FALSE]

Name(id) == Node("Name", id, <<>>, <<>>, <<>>)

Attribute(value, attr) == Node("Attribute", attr, <<value>>, <<>>, <<>>)

Call(func, args) == Node("Call", "", <<func>> \o args, <<>>, <<>>)

Await(value) == Node("Await", "", <<value>>, <<>>, <<>>)

Expr(value) == Node("Expr", "", <<value>>, <<>>, <<>>)

If(test, body, orelse) == Node("If", "", <<test>>, body, orelse)

AsyncWith(items, body) == Node("AsyncWith", "", items, body, <<>>)

AsyncFor(target, iter, body, orelse) == Node("AsyncFor", "", <<target, iter>>, body, orelse)

AsyncFunctionDef(name, body) == Node("AsyncFunctionDef", name, <<>>, body, <<>>)

Module(body) == Node("Module", "", <<>>, body, <<>>)

\* A statement written after blank lines.
AfterBlank(stmt) == [stmt EXCEPT !.blank = TRUE]

AsyncKinds == {"AsyncFunctionDef", "AsyncFor", "AsyncWith"}

\* The class each visit_Async* method builds its new node from.
SyncKind(k) ==
    CASE k = "AsyncFunctionDef" -> "FunctionDef"
      [] k = "AsyncFor" -> "For"
      [] k = "AsyncWith" -> "With"
      [] OTHER -> k

-----------------------------------------------------------------------------
(* class AsyncToSync(ast.NodeTransformer).  A visit both returns a node   *)
(* and changes the visited object in place; the two differ where a visit  *)
(* method builds a new node, so both are computed:                        *)
(*   A2S_Returned(n): the node self.visit(n) returns;                     *)
(*   A2S_InPlace(n):  the object n itself after self.visit(n).            *)
(* NodeTransformer.generic_visit assigns list fields in place             *)
(* (old_value[:] = new_values) and single fields with setattr.            *)

\* _is_async_call(test), where it returns: the func of the call is a Name.
_is_async_call(test) ==
    /\ test.k = "Call"
    /\ test.e[1].k = "Name"
    /\ test.e[1].id = "is_async"

\* _is_async_call(test) raises AttributeError: test.func.id is read on any
\* Call, and only a Name has an id.
_is_async_call_raises(test) == test.k = "Call" /\ test.e[1].k # "Name"

RECURSIVE A2S_Returned(_)
RECURSIVE A2S_InPlace(_)
RECURSIVE A2S_List(_)

\* What generic_visit puts in new_values for the items of a list field: a
\* visit that returns a list (visit_If returning node.orelse) is spliced in.
A2S_List(l) ==
    IF l = <<>> THEN <<>>
    ELSE
        LET n == l[1]
        IN  (IF n.k = "If" /\ _is_async_call(n.e[1])
             THEN [i \in 1..Len(n.orelse) |-> A2S_InPlace(n.orelse[i])]
             ELSE <<A2S_Returned(n)>>)
            \o A2S_List(Tail(l))

\* visit_Await returns node.value, the object it visited, not what the
\* visit of it returned; the visit_Async* methods return the new node that
\* generic_visit filled; every other node is returned by generic_visit.
A2S_Returned(n) ==
    IF n.k = "Await" THEN A2S_InPlace(n.e[1])
    ELSE [n EXCEPT !.k = SyncKind(n.k),
                   !.e = [i \in 1..Len(n.e) |-> A2S_Returned(n.e[i])],
                   !.body = A2S_List(n.body),
                   !.orelse = A2S_List(n.orelse)]

\* The visited object afterwards.  An Async* node keeps its class and its
\* single fields (target, iter), shares its lists (items, body, orelse)
\* with the new node; an Await keeps its value object; an `if is_async()`
\* keeps its test and body unvisited, and the items of its orelse are the
\* visited objects, the results of their visits being dropped.
A2S_InPlace(n) ==
    IF n.k \in {"AsyncFunctionDef", "AsyncFor"}
    THEN [n EXCEPT !.e = [i \in 1..Len(n.e) |-> A2S_InPlace(n.e[i])],
                   !.body = A2S_List(n.body),
                   !.orelse = A2S_List(n.orelse)]
    ELSE IF n.k = "AsyncWith"
    THEN [n EXCEPT !.e = [i \in 1..Len(n.e) |-> A2S_Returned(n.e[i])],
                   !.body = A2S_List(n.body)]
    ELSE IF n.k = "Await" THEN [n EXCEPT !.e = <<A2S_InPlace(n.e[1])>>]
    ELSE IF n.k = "If" /\ _is_async_call(n.e[1])
    THEN [n EXCEPT !.orelse = [i \in 1..Len(n.orelse) |-> A2S_InPlace(n.orelse[i])]]
    ELSE A2S_Returned(n)

\* The visit of n raises (AttributeError from _is_async_call) at one of the
\* nodes it reaches; the body of an `if is_async()` is not reached.
RECURSIVE A2S_Raises(_)
A2S_Raises(n) ==
    IF n.k = "If" /\ _is_async_call_raises(n.e[1]) THEN TRUE
    ELSE IF n.k = "If" /\ _is_async_call(n.e[1])
    THEN \E i \in 1..Len(n.orelse) : A2S_Raises(n.orelse[i])
    ELSE \/ \E i \in 1..Len(n.e) : A2S_Raises(n.e[i])
         \/ \E i \in 1..Len(n.body) : A2S_Raises(n.body[i])
         \/ \E i \in 1..Len(n.orelse) : A2S_Raises(n.orelse[i])

-----------------------------------------------------------------------------
(* class BlanksInserter: generic_visit replaces a list-valued body by     *)
(* _inject_blanks(body) and then visits every child.                      *)

Comment == Node("Comment", "", <<>>, <<>>, <<>>)

RECURSIVE _inject_blanks(_)
_inject_blanks(body) ==
    IF Len(body) <= 1 THEN body
    ELSE LET after == body[Len(body)]
         IN  _inject_blanks(SubSeq(body, 1, Len(body) - 1))
                 \o (IF after.blank THEN <<Comment>> ELSE <<>>) \o <<after>>

RECURSIVE BlanksInserter_visit(_)
BlanksInserter_visit(n) ==
    LET body == _inject_blanks(n.body)
    IN  [n EXCEPT !.e = [i \in 1..Len(n.e) |-> BlanksInserter_visit(n.e[i])],
                  !.body = [i \in 1..Len(body) |-> BlanksInserter_visit(body[i])],
                  !.orelse = [i \in 1..Len(n.orelse) |-> BlanksInserter_visit(n.orelse[i])]]

-----------------------------------------------------------------------------
(* class RenameAsyncToSync.  visit_Module rewrites a docstring and        *)
(* visit_ImportFrom an import; the trees of this model have neither.      *)

names_map ==
    [AsyncClientCursor |-> "ClientCursor",
     AsyncConnection |-> "Connection",
     AsyncCopy |-> "Copy",
     AsyncCursor |-> "Cursor",
     AsyncFileWriter |-> "FileWriter",
     AsyncLibpqWriter |-> "LibpqWriter",
     AsyncQueuedLibpqWriter |-> "QueuedLibpqWriter",
     AsyncRawCursor |-> "RawCursor",
     AsyncServerCursor |-> "ServerCursor",
     __aenter__ |-> "__enter__",
     __aexit__ |-> "__exit__",
     aclose |-> "close",
     aclosing |-> "closing",
     acommands |-> "commands",
     aconn |-> "conn",
     aconn_cls |-> "conn_cls",
     aconn_set |-> "conn_set",
     alist |-> "list",
     anext |-> "next",
     apipeline |-> "pipeline",
     ensure_table_async |-> "ensure_table",
     find_insert_problem_async |-> "find_insert_problem"]

\* names_map.get(name, name)
names_map_get(name) == IF name \in DOMAIN names_map THEN names_map[name] ELSE name

RECURSIVE RenameAsyncToSync_visit(_)
RenameAsyncToSync_visit(n) ==
    [n EXCEPT !.id = IF n.k \in {"Name", "Attribute", "AsyncFunctionDef"}
                     THEN names_map_get(n.id) ELSE n.id,
              !.e = [i \in 1..Len(n.e) |-> RenameAsyncToSync_visit(n.e[i])],
              !.body = [i \in 1..Len(n.body) |-> RenameAsyncToSync_visit(n.body[i])],
              !.orelse = [i \in 1..Len(n.orelse) |-> RenameAsyncToSync_visit(n.orelse[i])]]

-----------------------------------------------------------------------------
(* class FixAsyncSetters: a call obj.set_x(arg) becomes the assignment    *)
(* obj.x = arg, whose parts are not visited.                              *)

setters_map ==
    [set_autocommit |-> "autocommit",
     set_read_only |-> "read_only",
     set_isolation_level |-> "isolation_level",
     set_deferrable |-> "deferrable"]

\* The conditions under which _fix_setter goes on to build a node.
IsSetterCall(n) ==
    /\ n.k = "Call"
    /\ n.e[1].k = "Attribute"
    /\ n.e[1].id \in DOMAIN setters_map

\* node.args[0] raises IndexError on a setter call without arguments.
_fix_setter_raises(n) == IsSetterCall(n) /\ Len(n.e) = 1

_fix_setter(n) ==
    [k |-> "Assign", id |-> "",
     e |-> <<Attribute(n.e[1].e[1], setters_map[n.e[1].id]), n.e[2]>>,
     body |-> <<>>, orelse |-> <<>>, blank |-> n.blank]

RECURSIVE FixAsyncSetters_visit(_)
FixAsyncSetters_visit(n) ==
    IF IsSetterCall(n) THEN _fix_setter(n)
    ELSE [n EXCEPT !.e = [i \in 1..Len(n.e) |-> FixAsyncSetters_visit(n.e[i])],
                   !.body = [i \in 1..Len(n.body) |-> FixAsyncSetters_visit(n.body[i])],
                   !.orelse = [i \in 1..Len(n.orelse) |-> FixAsyncSetters_visit(n.orelse[i])]]

RECURSIVE FixAsyncSetters_raises(_)
FixAsyncSetters_raises(n) ==
    IF IsSetterCall(n) THEN _fix_setter_raises(n)
    ELSE \/ \E i \in 1..Len(n.e) : FixAsyncSetters_raises(n.e[i])
         \/ \E i \in 1..Len(n.body) : FixAsyncSetters_raises(n.body[i])
         \/ \E i \in 1..Len(n.orelse) : FixAsyncSetters_raises(n.orelse[i])

-----------------------------------------------------------------------------
(* async_to_sync(tree): the four visitors in the order of the source.     *)

\* The tree that reaches AsyncToSync().visit.
Renamed(t) == RenameAsyncToSync_visit(BlanksInserter_visit(t))

\* The exception async_to_sync(tree) raises, "None" when it returns.
async_to_sync_exc(t) ==
    IF A2S_Raises(Renamed(t)) THEN "AttributeError"
    ELSE IF FixAsyncSetters_raises(A2S_Returned(Renamed(t))) THEN "IndexError"
    ELSE "None"

async_to_sync(t) == FixAsyncSetters_visit(A2S_Returned(Renamed(t)))

-----------------------------------------------------------------------------
(* main() of async_to_sync.py: the trees it is run on, and its steps.     *)

RECURSIVE Awaits(_, _)
\* e under d directly nested awaits.
Awaits(e, d) == IF d = 0 THEN e ELSE Await(Awaits(e, d - 1))

CallG == Call(Name("g"), <<>>)

CallIsAsync == Call(Name("is_async"), <<>>)

BaseExprs ==
    {Name("aconn"),
     CallG,
     Call(Attribute(Name("aconn"), "aclose"), <<>>),
     Call(Name("h"), <<Await(CallG)>>),
     Call(Attribute(Name("self"), "set_autocommit"), <<Name("x")>>),
     Call(Attribute(Name("self"), "set_autocommit"), <<>>)}

Exprs == {Awaits(e, d) : e \in BaseExprs, d \in 0..MaxAwait}

SimpleStmts == {Expr(e) : e \in Exprs}

InnerStmts == {Expr(Awaits(CallG, d)) : d \in 0..MaxAwait}

AsyncStmts ==
    {AsyncWith(<<c>>, <<s>>) : c \in {Name("aconn"), Await(CallG)}, s \in InnerStmts}
    \cup {AsyncFor(Name("i"), it, <<s>>, <<>>) :
              it \in {Name("x"), Await(CallG)}, s \in InnerStmts}
    \cup {AsyncFunctionDef("__aenter__", <<s>>) : s \in InnerStmts}
    \cup {AsyncFunctionDef("f", <<s, AfterBlank(s)>>) : s \in InnerStmts}

Tests == {CallIsAsync, Name("x"), Call(Attribute(Name("self"), "closed"), <<>>)}

IfStmts ==
    {If(t, <<Expr(Await(CallG))>>, <<c>>) : t \in Tests, c \in InnerStmts \cup AsyncStmts}

NestedIfStmts == {If(CallIsAsync, <<Expr(Await(CallG))>>, <<c>>) : c \in IfStmts}

InputTrees ==
    {Module(<<s>>) : s \in SimpleStmts \cup AsyncStmts \cup IfStmts \cup NestedIfStmts}
    \cup {Module(<<AsyncFunctionDef("f", <<c>>)>>) : c \in IfStmts}
    \cup {Module(<<s, AfterBlank(c)>>) : s \in InnerStmts, c \in AsyncStmts}

\* tree = ast.parse(source, filename=opt.filename)
main_parse ==
    /\ tool_pc = "start"
    /\ \E t \in InputTrees : tree' = t
    /\ tool_pc' = "parsed"
    /\ UNCHANGED <<tool_exc, hookVars, wrapVars, dumpVars, loadVars, regVars>>

\* tree = async_to_sync(tree); an exception leaves main().
main_convert ==
    /\ tool_pc = "parsed"
    /\ LET exc == async_to_sync_exc(tree)
       IN  IF exc # "None"
           THEN /\ tree' = NoTree
                /\ tool_pc' = "raised"
                /\ tool_exc' = exc
           ELSE /\ tree' = async_to_sync(tree)
                /\ tool_pc' = "converted"
                /\ UNCHANGED tool_exc
    /\ UNCHANGED <<hookVars, wrapVars, dumpVars, loadVars, regVars>>

NextTool ==
    \/ main_parse
    \/ main_convert

SpecTool == Init /\ [][NextTool]_vars

-----------------------------------------------------------------------------
(* Definitions the properties are stated with. *)

Range(f) == {f[i] : i \in DOMAIN f}

\* The deserializer get_loads() returned when loader l was constructed, read
\* from the history: the override of the class if it has one, else the
\* global deserializer of that moment.
BoundAtConstruction(l) ==
    IF Resolve(loaders[l].cls, "get_loads") = "CtxJsonLoader" THEN "loads_int_str"
    ELSE loaderHist[l].g

\* The serializer wrapper w was given, or the global one of the moment it
\* was built when it was given none.
PinnedAtWrap(w) ==
    IF wrapHist[w].dumps # "None" THEN wrapHist[w].dumps ELSE wrapHist[w].g

\* The type a dumper class declares for its output (its _oid attribute).
DumperOid(cls) == IF Resolve(cls, "_oid") = "JsonDumper" THEN "json" ELSE "jsonb"

\* The registry of a scope after the bootstrap, as the source lists it.
BuiltinRegistry ==
    [_dumpers |-> (<<"Json", "TEXT">> :> "JsonDumper")
                  @@ (<<"Json", "BINARY">> :> "JsonBinaryDumper")
                  @@ (<<"Jsonb", "TEXT">> :> "JsonbDumper")
                  @@ (<<"Jsonb", "BINARY">> :> "JsonbBinaryDumper"),
     _loaders |-> (<<"json", "TEXT">> :> "JsonLoader")
                  @@ (<<"json", "BINARY">> :> "JsonBinaryLoader")
                  @@ (<<"jsonb", "TEXT">> :> "JsonbLoader")
                  @@ (<<"jsonb", "BINARY">> :> "JsonbBinaryLoader")]

\* A dumper class and a loader class match when the bootstrap registers the
\* loader class (or the base of a user subclass) for the dumper's type and
\* format.
MatchingPair(dc, lc) ==
    LET ad == RegisterDefaults("global", [s \in Scopes |-> EmptyRegistry])
        c == lookup_loader(ad, "global", <<DumperOid(dc), ClassFormat(dc)>>)
    IN  lc = c \/ ClassBase(lc) = c

\* The pairs of a serializer and a deserializer that are inverse to each
\* other on the payloads, through the UTF-8 encoding.
InversePairs ==
    {p \in DumpsFns \X LoadsFns :
        \A obj \in Payloads :
            ApplyLoads(p[2], Bytes(str_encode_utf8(ApplyDumps(p[1], obj))))
                = Returned(obj)}

DumperKeys == WrapperClasses \X {"TEXT", "BINARY"}

LoaderKeys == {"json", "jsonb"} \X {"TEXT", "BINARY"}

-----------------------------------------------------------------------------
(* The properties. *)

\* C1: every load() call of a loader uses the deserializer get_loads()
\* returned when that loader was constructed (the global one of that
\* moment unless the class overrides get_loads), whatever set_json_loads
\* calls came later; a loader constructed after a call holds the new one.
C1_LoaderBindsAtConstruction ==
    /\ \A l \in 1..Len(loaders) : loaders[l]._loads = BoundAtConstruction(l)
    /\ (lastLoad.l # 0 /\ lastLoad.res.called)
          => lastLoad.res.fn = BoundAtConstruction(lastLoad.l)

\* C1 witness: a load() that ran after set_json_loads changed the global
\* hook and still used the function bound at construction.
C1_Witness ==
    /\ lastLoad.l # 0
    /\ lastLoad.res.called
    /\ loaders[lastLoad.l].cls = "JsonLoader"
    /\ loaderHist[lastLoad.l].g # g_loads
    /\ lastLoad.res.fn = loaderHist[lastLoad.l].g

\* C2: a wrapper built without an explicit serializer holds and dumps with
\* the global serializer set by the last set_json_dumps before it was
\* built; a wrapper built with an explicit serializer holds and dumps
\* with that one, whatever set_json_dumps calls come before or after.
C2_HookIsolation ==
    /\ \A w \in 1..Len(wrappers) : wrappers[w]._dumps = PinnedAtWrap(w)
    /\ lastDumps.w # 0
          => /\ lastDumps.call.fn = PinnedAtWrap(lastDumps.w)
             /\ lastDumps.call.arg = wrappers[lastDumps.w].obj

\* C2 witness: a wrapper with an explicit serializer dumped with it while
\* the global serializer was another function.
C2_Witness ==
    /\ lastDumps.w # 0
    /\ wrapHist[lastDumps.w].dumps # "None"
    /\ lastDumps.g # wrapHist[lastDumps.w].dumps
    /\ wrapHist[lastDumps.w].g # wrapHist[lastDumps.w].dumps
    /\ lastDumps.call.fn = wrapHist[lastDumps.w].dumps

\* C3 (as claimed): the global serializer is read by Dumper constructors:
\* a dump() of a wrapper without an explicit serializer uses the global
\* serializer of the moment the dumper was constructed.
C3_Claim ==
    (lastDump.d # 0 /\ wrapHist[lastDump.w].dumps = "None")
        => lastDump.res.call.fn = dumperHist[lastDump.d].g

C5_Claim ==
    (/\ lastLoad.l # 0
     /\ Resolve(loaders[lastLoad.l].cls, "load") = "JsonbBinaryLoader"
     /\ Content(lastLoad.data) # <<>>)
        => IF Content(lastLoad.data)[1] # 1
           THEN /\ lastLoad.res.raised = "DataError"
                /\ ~lastLoad.res.called
                /\ Content(lastLoad.data)[1] \in Range(lastLoad.res.msg.values)
           ELSE /\ lastLoad.res.called
                /\ lastLoad.res.fn = loaders[lastLoad.l]._loads
                /\ Content(lastLoad.res.arg) = Tail(Content(lastLoad.data))

\* C6: JsonbBinaryDumper.dump returns byte 1 followed by what JsonbDumper
\* returns, the UTF-8 bytes of the wrapper's rendering; JsonBinaryDumper
\* returns what JsonDumper returns, the UTF-8 bytes alone.
C6_BinaryFraming ==
    lastDump.d # 0 =>
        LET w == wrappers[lastDump.w]
            utf8 == str_encode_utf8(ApplyDumps(w._dumps, w.obj))
        IN  /\ dumpers[lastDump.d].cls = "JsonbBinaryDumper"
                => /\ lastDump.res.out = <<1>> \o Dumper_dump([cls |-> "JsonbDumper"], w).out
                   /\ lastDump.res.out = <<1>> \o utf8
                   /\ lastDump.res.out[1] = 1
            /\ dumpers[lastDump.d].cls = "JsonBinaryDumper"
                => /\ lastDump.res.out = Dumper_dump([cls |-> "JsonDumper"], w).out
                   /\ lastDump.res.out = utf8

\* C6 witness: a JsonbBinaryDumper dumped a rendering holding non-ASCII text.
C6_Witness ==
    /\ lastDump.d # 0
    /\ dumpers[lastDump.d].cls = "JsonbBinaryDumper"
    /\ Len(lastDump.res.out) > 1 + Len(lastDump.res.call.out)
    /\ lastDump.res.out[1] = 1

\* C7: when the serializer of the wrapper and the deserializer of the
\* loader are inverse to each other and the dumper and loader classes
\* match, loading what the dumper returned gives back the payload.
C7_RoundTrip ==
    (/\ lastLoad.l # 0
     /\ lastDump.d # 0
     /\ Content(lastLoad.data) = lastDump.res.out
     /\ MatchingPair(dumpers[lastDump.d].cls, loaders[lastLoad.l].cls)
     /\ <<wrappers[lastDump.w]._dumps, loaders[lastLoad.l]._loads>> \in InversePairs)
        => /\ lastLoad.res.raised = ""
           /\ lastLoad.res.val = wrappers[lastDump.w].obj

\* C7 witness: a list with non-ASCII text went through the Jsonb binary
\* pair, serialized without ASCII escapes, and came back.
C7_Witness ==
    /\ lastLoad.l # 0
    /\ lastDump.d # 0
    /\ dumpers[lastDump.d].cls = "JsonbBinaryDumper"
    /\ loaders[lastLoad.l].cls = "JsonbBinaryLoader"
    /\ wrappers[lastDump.w]._dumps = "dumps_raw"
    /\ loaders[lastLoad.l]._loads = "json.loads"
    /\ wrappers[lastDump.w].obj = PList(<<PInt(12), PStr(<<233>>)>>)
    /\ Content(lastLoad.data) = lastDump.res.out
    /\ lastLoad.res.raised = ""
    /\ lastLoad.res.val = wrappers[lastDump.w].obj

\* C8: a registration made in one scope leaves every lookup from a scope
\* that is neither that scope nor below it (its parent, the root, a
\* sibling) as it was.
C8_ScopeIsolation ==
    [][\A t \in Scopes \ ScopeAndDescendants(lastReg'.ctx) :
          /\ \A k \in DumperKeys :
                lookup_dumper(adapters', t, k) = lookup_dumper(adapters, t, k)
          /\ \A k \in LoaderKeys :
                lookup_loader(adapters', t, k) = lookup_loader(adapters, t, k)]_vars

\* C8 witness: a loader registered in one cursor's scope is found from
\* that cursor while the sibling cursor and the session still find the
\* built-in one.
C8_Witness ==
    /\ lastReg.ctx = "cur1"
    /\ lookup_loader(adapters, "cur1", <<"json", "TEXT">>) = "CtxJsonLoader"
    /\ lookup_loader(adapters, "cur2", <<"json", "TEXT">>) = "JsonLoader"
    /\ lookup_loader(adapters, "conn", <<"json", "TEXT">>) = "JsonLoader"
    /\ lookup_loader(adapters, "global", <<"json", "TEXT">>) = "ProgrammingError"

\* C9: register_default_globals on an empty scope leaves exactly the eight
\* built-in registrations there, each key with the class of its own family
\* and format; on a scope that holds exactly those it changes nothing.
C9_Bootstrap ==
    [][lastReg'.op = "register_default_globals" =>
          /\ adapters[lastReg'.ctx] = EmptyRegistry
                => /\ adapters'[lastReg'.ctx] = BuiltinRegistry
                   /\ Cardinality(DOMAIN adapters'[lastReg'.ctx]._dumpers)
                      + Cardinality(DOMAIN adapters'[lastReg'.ctx]._loaders) = 8
          /\ adapters[lastReg'.ctx] = BuiltinRegistry => adapters' = adapters]_vars

\* C9 witness: a scope holds exactly the eight built-in registrations
\* after register_default_globals ran on it.
C9_Witness ==
    /\ lastReg.op = "register_default_globals"
    /\ adapters[lastReg.ctx] = BuiltinRegistry
    /\ DOMAIN adapters[lastReg.ctx]._dumpers = DumperKeys
    /\ DOMAIN adapters[lastReg.ctx]._loaders = LoaderKeys

\* C10: load() of a memoryview gives what load() of the same content as
\* bytes gives, and the deserializer is only ever called with bytes or a
\* bytearray, never with a memoryview.
C10_ViewNormalization ==
    lastLoad.l # 0 =>
        /\ lastLoad.res.called => lastLoad.res.arg.kind \in {"bytes", "bytearray"}
        /\ lastLoad.data.kind = "memoryview"
              => LET r == Loader_load(loaders[lastLoad.l], bytes_of(lastLoad.data))
                 IN  /\ lastLoad.res.raised = r.raised
                     /\ lastLoad.res.val = r.val
                     /\ lastLoad.res.called = r.called
                     /\ Content(lastLoad.res.arg) = Content(r.arg)

\* C10 witness: a JsonbBinaryLoader loaded a non-contiguous memoryview and
\* returned the value.
C10_Witness ==
    /\ lastLoad.l # 0
    /\ loaders[lastLoad.l].cls = "JsonbBinaryLoader"
    /\ lastLoad.data.kind = "memoryview"
    /\ lastLoad.data.step = 2
    /\ lastLoad.res.called
    /\ lastLoad.res.arg.kind = "bytes"
    /\ lastLoad.res.fn = "json.loads"
    /\ lastLoad.res.val = PStr(<<233>>)

\* C11: JsonbBinaryLoader.load on empty data raises no DataError: it calls
\* the bound deserializer on the empty byte sequence, and what load()
\* returns or raises is what that call returns or raises.
C11_EmptyJsonbBinary ==
    (/\ lastLoad.l # 0
     /\ Resolve(loaders[lastLoad.l].cls, "load") = "JsonbBinaryLoader"
     /\ Content(lastLoad.data) = <<>>)
        => /\ lastLoad.res.raised # "DataError"
           /\ lastLoad.res.called
           /\ lastLoad.res.fn = loaders[lastLoad.l]._loads
           /\ lastLoad.res.arg.kind \in {"bytes", "bytearray"}
           /\ Content(lastLoad.res.arg) = <<>>
           /\ lastLoad.res.raised = ApplyLoads(lastLoad.res.fn, Bytes(<<>>)).raised
           /\ lastLoad.res.val = ApplyLoads(lastLoad.res.fn, Bytes(<<>>)).val

\* C11 witness: a JsonbBinaryLoader loaded an empty memoryview, and the
\* error raised is the one json.loads raises on empty input.
C11_Witness ==
    /\ lastLoad.l # 0
    /\ loaders[lastLoad.l].cls = "JsonbBinaryLoader"
    /\ lastLoad.data.kind = "memoryview"
    /\ lastLoad.data.len = 0
    /\ lastLoad.res.called
    /\ lastLoad.res.raised = "JSONDecodeError"

-----------------------------------------------------------------------------
(* The output of the async-to-sync tool. *)

IsAsyncConstruct(n) ==
    \/ n.k \in AsyncKinds \cup {"Await"}
    \/ n.k = "If" /\ _is_async_call(n.e[1])

RECURSIVE ContainsAsync(_)
ContainsAsync(n) ==
    \/ IsAsyncConstruct(n)
    \/ \E i \in 1..Len(n.e) : ContainsAsync(n.e[i])
    \/ \E i \in 1..Len(n.body) : ContainsAsync(n.body[i])
    \/ \E i \in 1..Len(n.orelse) : ContainsAsync(n.orelse[i])

\* C12: the tree async_to_sync returns holds no AsyncFunctionDef, AsyncFor,
\* AsyncWith or Await node at any depth and no `if is_async()` statement.
C12_Claim == tool_pc = "converted" => ~ContainsAsync(tree)

=============================================================================
